---- MODULE Spec2Model ----
(***************************************************************************)
(* Model of newIDE/electron-app/app/ServeFolder.js: the per-window         *)
(* registry of preview servers (serversByWindow) and the three exported    *)
(* operations serveFolder, stopServer and stopAllServers, together with    *)
(* their asynchronous completions (port found / rejected, listen           *)
(* completed / failed, close completed).                                   *)
(*                                                                         *)
(* Library semantics the code relies on (Node.js net/http):                *)
(*  - server.listen(port, cb) registers cb for the 'listening' event only. *)
(*    A failed bind emits 'error'; cb is then never invoked, and it is     *)
(*    never invoked with an argument.                                      *)
(*  - server.close(cb) stops listening at once; cb runs later, on the      *)
(*    'close' event, with an Error iff the server was not listening when   *)
(*    close was called.  close never throws.                               *)
(*                                                                         *)
(* A server object is modelled by value: {listening, port, root, windowId} *)
(* (root is the root captured by its requestHandler, windowId the window   *)
(* of the serveFolder call that created it).  A server that listens while  *)
(* no registry record refers to it is kept in `unreferenced`; one that     *)
(* neither listens nor is referred to is garbage and is dropped.           *)
(* useHttps only selects the module (http or https) and params.https; no   *)
(* registry decision reads it, and it is left out.                         *)
(* Other processes bind and release ports of the range at any time: which  *)
(* ports they hold when the port finder probes, and whether one took the   *)
(* allocated port before the bind, are inputs of those steps.              *)
(*                                                                         *)
(* Node's close and closeAllConnections do not throw, and Spec, SpecSerial  *)
(* and SpecRequests have them never throw.  The try/catch statements of    *)
(* serveFolder and stopAllServers are exercised by SpecThrowing, in which  *)
(* either call may throw; a call that throws leaves the server as it was.  *)
(*                                                                         *)
(* The request handler of a listening server runs in two steps: the        *)
(* synchronous part up to fs.readFile, and the readFile callback.  Strings *)
(* that the handler takes apart (req.url, the pathname) are sequences of   *)
(* characters.  The outcome of fs.readFile is an input of the callback.    *)
(* closeAllConnections destroys the sockets of the requests in flight but  *)
(* cancels no readFile callback: the handler still completes the response  *)
(* object, which is what `requests` and `last.res` hold.                   *)
(***************************************************************************)
EXTENDS Integers, Sequences, FiniteSets, Bags, TLC

VARIABLES
  serversByWindow,  \* Map<windowId, { serverParams, httpServer }>
  unreferenced,     \* listening servers that no registry record refers to
  calls,            \* the calls in flight (awaiting a port, a bind or a close)
  made,             \* how many calls of the three operations were made so far
  requests,         \* HTTP requests whose fs.readFile callback is yet to run
  last              \* the step that led to this state, and what it delivered

vars == <<serversByWindow, unreferenced, calls, made, requests, last>>

----------------------------------------------------------------------------
(* Bounds and input sets *)

\* calls of serveFolder, stopServer and stopAllServers made in one run
MaxCalls == 3
\* calls made in one run by a caller that serializes serveFolder per window
MaxSerialCalls == 5
\* size of the port range (4000 - 2929 + 1 in the code)
PortCount == 2

MinPort == 2929
MaxPort == MinPort + PortCount - 1
Ports == MinPort..MaxPort

Windows == {"w1", "w2"}
Roots == {"/a", "/b"}

Undefined == "undefined"
\* What stands for the absence of a port number.
NoPort == MinPort - 1
\* onDone called without params
NoParams == [port |-> NoPort, root |-> Undefined]

NoPortAvailable == "NoPortAvailable"
ERR_SERVER_NOT_RUNNING == "ERR_SERVER_NOT_RUNNING"
EADDRINUSE == "EADDRINUSE"

----------------------------------------------------------------------------
(* The registry: a Map *)

\* new Map(), and serversByWindow.clear()
EmptyMap == [w \in {} |-> Undefined]
clear(map) == EmptyMap
\* serversByWindow.get(windowId), and whether it is defined
has(windowId) == windowId \in DOMAIN serversByWindow
get(windowId) == serversByWindow[windowId]
\* serversByWindow.set(windowId, record)
set(map, windowId, record) ==
  [w \in DOMAIN map \cup {windowId} |-> IF w = windowId THEN record ELSE map[w]]
\* serversByWindow.delete(windowId)
delete(map, windowId) == [w \in DOMAIN map \ {windowId} |-> map[w]]

----------------------------------------------------------------------------
(* Server objects and ports *)

\* The servers the registry refers to
referenced(map) == {map[w].httpServer : w \in DOMAIN map}

\* Every server that is bound to its port now
Listening == {s \in referenced(serversByWindow) : s.listening} \cup unreferenced

\* Ports held by the servers of this process
OwnPorts == {s.port : s \in Listening}

\* Ports that cannot be bound now: ours that listen, and other processes'.
BoundPorts(externalPorts) == externalPorts \cup OwnPorts

\* The listening servers that `after` no longer refers to.
released(before, after) ==
  {s \in referenced(before) : s.listening /\ s \notin referenced(after)}

\* getAvailablePort(minPort, maxPort): the lowest port of the range that is
\* not bound, or NoPort (the promise rejects) when there is none.
getAvailablePort(minPort, maxPort, externalPorts) ==
  LET free == {p \in minPort..maxPort : p \notin BoundPorts(externalPorts)}
  IN IF free = {} THEN NoPort
     ELSE CHOOSE p \in free : \A q \in free : p <= q

\* httpServer.close() on the server of the record of windowId
close(map, windowId) == [map EXCEPT ![windowId].httpServer.listening = FALSE]

\* The error the callback of httpServer.close(cb) will receive.
closeError(httpServer) ==
  IF httpServer.listening THEN Undefined ELSE ERR_SERVER_NOT_RUNNING

----------------------------------------------------------------------------
(* HTTP responses *)

\* The three headers that disable caching (lines 67-72)
NoCacheHeaders ==
  { <<"Surrogate-Control", "no-store">>,
    <<"Cache-Control", "no-store, no-cache, must-revalidate, proxy-revalidate">>,
    <<"Expires", "0">> }

\* The res object given to the handler: no header set, nothing written.
NewResponse == [headers |-> {}, statusCode |-> 0, body |-> Undefined, ended |-> FALSE]

\* No response object: the step was not one of the request handler.
NoResponse == [headers |-> {}, statusCode |-> -1, body |-> Undefined, ended |-> FALSE]

\* res.setHeader(name, value)
setHeader(res, name, value) ==
  [res EXCEPT !.headers = {h \in @ : h[1] # name} \cup {<<name, value>>}]

\* A writeHead that sends only the headers it is given
writeHeadOwnHeadersOnly(res, statusCode, headers) ==
  [res EXCEPT !.statusCode = statusCode, !.headers = headers]

\* res.writeHead(statusCode, headers): the headers given are merged into
\* those set with setHeader.
writeHead(res, statusCode, headers) ==
  [res EXCEPT !.statusCode = statusCode,
              !.headers = {h \in @ : \A g \in headers : g[1] # h[1]} \cup headers]

\* res.end(data)
end(res, data) == [res EXCEPT !.body = data, !.ended = TRUE]

----------------------------------------------------------------------------
(* Calls in flight, and the record of the last step *)

\* A call in flight: its arguments, the callback it awaits (pc), the port it
\* was given and the error its close callback will get; and, kept for the
\* properties, whether the window had a record (of another root) when
\* serveFolder was called (replaces) and whether no server of the window was
\* listening when stopServer was called (noListener).
Call(op, windowId, root, pc) ==
  [op |-> op, windowId |-> windowId, root |-> root, pc |-> pc, port |-> NoPort,
   closeErr |-> Undefined, replaces |-> FALSE, noListener |-> FALSE]

InFlight == BagToSet(calls)
start(c) == calls (+) SetToBag({c})
finish(c) == calls (-) SetToBag({c})

\* What a step did: the operation and the step of it, the window and root of
\* the call, how many times the step invoked onDone and with what, whether
\* the call is over (no callback of it is left to run), how many listening
\* servers the step closed, the call's replaces, noListener and closeErr, how
\* many library calls of the step threw, and for a step of the request
\* handler the response object as the step left it.
Event(op, step, windowId, root) ==
  [op |-> op, step |-> step, windowId |-> windowId, root |-> root,
   onDoneCount |-> 0, err |-> Undefined, params |-> NoParams, ended |-> FALSE,
   closed |-> 0, replaces |-> FALSE, noListener |-> FALSE, closeErr |-> Undefined,
   raised |-> 0, res |-> NoResponse]

\* A step of call c
EventOf(c, step) ==
  [Event(c.op, step, c.windowId, c.root)
     EXCEPT !.replaces = c.replaces, !.noListener = c.noListener,
            !.closeErr = c.closeErr]

\* onDone(err, params), which is the last thing the call does
onDone(e, err, params) ==
  [e EXCEPT !.onDoneCount = @ + 1, !.err = err, !.params = params, !.ended = TRUE]

\* The listening servers created for windowId
ListenersOf(map, unref, windowId) ==
  {s \in referenced(map) \cup unref : s.listening /\ s.windowId = windowId}

----------------------------------------------------------------------------
Init ==
  /\ serversByWindow = EmptyMap
  /\ unreferenced = {}
  /\ calls = EmptyBag
  /\ made = 0
  /\ requests = {}
  /\ last = Event("init", "init", Undefined, Undefined)

----------------------------------------------------------------------------
(* serveFolder *)

\* A comparison that reads a field the record does not have
hasServerForRootWrongField(windowId, root) ==
  has(windowId) /\ Undefined = root

\* line 16: this window already has a server for the same root
hasServerForRoot(windowId, root) ==
  has(windowId) /\ get(windowId).serverParams.root = root

\* lines 13-19: the fast path
serveFolderSameRoot(root, windowId) ==
  /\ hasServerForRoot(windowId, root)
  /\ last' = onDone(Event("serveFolder", "fastPath", windowId, root),
                    Undefined, get(windowId).serverParams)
  /\ UNCHANGED <<serversByWindow, unreferenced, calls>>

\* lines 21-30: close the existing server of the window, ask for a port
serveFolderNewServer(root, windowId) ==
  /\ ~hasServerForRoot(windowId, root)
  /\ serversByWindow' =
       IF has(windowId) THEN close(serversByWindow, windowId) ELSE serversByWindow
  /\ LET c == [Call("serveFolder", windowId, root, "getAvailablePort")
                 EXCEPT !.replaces = has(windowId)]
     IN /\ calls' = start(c)
        /\ last' = [EventOf(c, "called") EXCEPT
                      !.closed = IF has(windowId) /\ get(windowId).httpServer.listening
                                 THEN 1 ELSE 0]
  /\ UNCHANGED unreferenced

\* serveFolder({ root, useHttps, windowId }, onDone): the synchronous part
serveFolder(root, windowId) ==
  /\ made' = made + 1
  /\ UNCHANGED requests
  /\ \/ serveFolderSameRoot(root, windowId)
     \/ serveFolderNewServer(root, windowId)

\* getAvailablePort(2929, 4000).then(port => ...): the server is created and
\* listen(port, callback) is called.
PortResolved(c, externalPorts) ==
  /\ c.pc = "getAvailablePort"
  /\ LET port == getAvailablePort(MinPort, MaxPort, externalPorts)
     IN /\ port # NoPort
        /\ calls' = finish(c) (+) SetToBag({[c EXCEPT !.pc = "listen", !.port = port]})
  /\ last' = EventOf(c, "portResolved")
  /\ UNCHANGED <<serversByWindow, unreferenced, made, requests>>

\* A rejection handler that also drops the record of the window
PortRejectedDropsRecord(c, externalPorts) ==
  /\ c.pc = "getAvailablePort"
  /\ getAvailablePort(MinPort, MaxPort, externalPorts) = NoPort
  /\ calls' = finish(c)
  /\ serversByWindow' = delete(serversByWindow, c.windowId)
  /\ last' = onDone(EventOf(c, "portRejected"), NoPortAvailable, NoParams)
  /\ UNCHANGED <<unreferenced, made, requests>>

\* err => onDone(err): the port finder rejected
PortRejected(c, externalPorts) ==
  /\ c.pc = "getAvailablePort"
  /\ getAvailablePort(MinPort, MaxPort, externalPorts) = NoPort
  /\ calls' = finish(c)
  /\ last' = onDone(EventOf(c, "portRejected"), NoPortAvailable, NoParams)
  /\ UNCHANGED <<serversByWindow, unreferenced, made, requests>>

\* The callback given to httpServer.listen (lines 122-130), for the server
\* httpServer with params serverParams of call c.
listenCallback(c, err, serverParams, httpServer) ==
  IF err # Undefined
  THEN /\ last' = onDone(EventOf(c, "listenCallback"), err, NoParams)
       /\ UNCHANGED serversByWindow
  ELSE /\ serversByWindow' =
            set(serversByWindow, c.windowId,
                [serverParams |-> serverParams, httpServer |-> httpServer])
       /\ last' = onDone(EventOf(c, "listenCallback"), Undefined, serverParams)

\* The bind succeeded: 'listening' is emitted and the callback runs.
ListenCompleted(c, externalPorts) ==
  /\ c.pc = "listen"
  /\ c.port \notin BoundPorts(externalPorts)
  /\ listenCallback(c, Undefined,
                    [port |-> c.port, root |-> c.root],
                    [listening |-> TRUE, port |-> c.port,
                     root |-> c.root, windowId |-> c.windowId])
  /\ unreferenced' = unreferenced \cup released(serversByWindow, serversByWindow')
  /\ calls' = finish(c)
  /\ UNCHANGED <<made, requests>>

\* The bind failed: 'error' is emitted, for which the code registers no
\* listener; the listen callback does not run, and nothing of the call is left.
ListenFailed(c, externalPorts) ==
  /\ c.pc = "listen"
  /\ c.port \in BoundPorts(externalPorts)
  /\ calls' = finish(c)
  /\ last' = [EventOf(c, "listenError") EXCEPT !.err = EADDRINUSE, !.ended = TRUE]
  /\ UNCHANGED <<serversByWindow, unreferenced, made, requests>>

----------------------------------------------------------------------------
(* stopServer *)

\* lines 140-145: close the server of the window; the callback runs later
stopServerClose(windowId) ==
  /\ has(windowId)
  /\ serversByWindow' = close(serversByWindow, windowId)
  /\ LET c == [Call("stopServer", windowId, Undefined, "close")
                 EXCEPT !.closeErr = closeError(get(windowId).httpServer),
                        !.noListener =
                           ListenersOf(serversByWindow, unreferenced, windowId) = {}]
     IN /\ calls' = start(c)
        /\ last' = [EventOf(c, "called") EXCEPT
                      !.closed = IF get(windowId).httpServer.listening THEN 1 ELSE 0]
  /\ UNCHANGED unreferenced

\* lines 146-149: no record for the window
stopServerNoServer(windowId) ==
  /\ ~has(windowId)
  /\ serversByWindow' = delete(serversByWindow, windowId)
  /\ last' = onDone([Event("stopServer", "noServer", windowId, Undefined)
                       EXCEPT !.noListener =
                         ListenersOf(serversByWindow, unreferenced, windowId) = {}],
                    Undefined, NoParams)
  /\ UNCHANGED <<unreferenced, calls>>

\* stopServer(windowId, onDone): the synchronous part
stopServer(windowId) ==
  /\ made' = made + 1
  /\ UNCHANGED requests
  /\ \/ stopServerClose(windowId)
     \/ stopServerNoServer(windowId)

\* A close callback that keeps the record when the close reported an error
CloseCompletedKeepsOnError(c) ==
  /\ c.pc = "close"
  /\ serversByWindow' =
       IF c.closeErr # Undefined THEN serversByWindow
       ELSE delete(serversByWindow, c.windowId)
  /\ unreferenced' = unreferenced \cup released(serversByWindow, serversByWindow')
  /\ calls' = finish(c)
  /\ last' = onDone(EventOf(c, "closeCallback"), c.closeErr, NoParams)
  /\ UNCHANGED <<made, requests>>

\* The callback given to httpServer.close (lines 142-145)
CloseCompleted(c) ==
  /\ c.pc = "close"
  /\ serversByWindow' = delete(serversByWindow, c.windowId)
  /\ unreferenced' = unreferenced \cup released(serversByWindow, serversByWindow')
  /\ calls' = finish(c)
  /\ last' = onDone(EventOf(c, "closeCallback"), c.closeErr, NoParams)
  /\ UNCHANGED <<made, requests>>

----------------------------------------------------------------------------
(* stopAllServers *)

\* A loop that closes nothing
closeAllSkipped(map) == map

\* The forEach of lines 156-172: every listening server of the registry is
\* closed (after closeAllConnections, where the runtime has it).
closeAll(map) ==
  [w \in DOMAIN map |-> [map[w] EXCEPT !.httpServer.listening = FALSE]]

stopAllServers ==
  /\ made' = made + 1
  /\ UNCHANGED requests
  /\ serversByWindow' = clear(closeAll(serversByWindow))
  /\ unreferenced' =
       unreferenced \cup released(closeAll(serversByWindow), serversByWindow')
  /\ last' = [Event("stopAllServers", "returned", Undefined, Undefined) EXCEPT
                !.ended = TRUE,
                !.closed = Cardinality({s \in referenced(serversByWindow) : s.listening})]
  /\ UNCHANGED calls

----------------------------------------------------------------------------
\* The callbacks of the calls in flight
Completion ==
  \/ \E c \in InFlight, externalPorts \in SUBSET Ports : PortResolved(c, externalPorts)
  \/ \E c \in InFlight, externalPorts \in SUBSET Ports : PortRejected(c, externalPorts)
  \/ \E c \in InFlight, externalPorts \in SUBSET Ports : ListenCompleted(c, externalPorts)
  \/ \E c \in InFlight, externalPorts \in SUBSET Ports : ListenFailed(c, externalPorts)
  \/ \E c \in InFlight : CloseCompleted(c)

\* Any caller: the three operations are called at any time, in any order.
Next ==
  \/ /\ made < MaxCalls
     /\ \E root \in Roots, windowId \in Windows : serveFolder(root, windowId)
  \/ /\ made < MaxCalls
     /\ \E windowId \in Windows : stopServer(windowId)
  \/ /\ made < MaxCalls
     /\ stopAllServers
  \/ Completion

Spec == Init /\ [][Next]_vars

\* A caller that serializes its serveFolder calls per window: it calls
\* serveFolder for a window only when no serveFolder call for that window is
\* in flight.  stopServer and stopAllServers are called at any time.
Serialized(windowId) ==
  \A c \in InFlight : ~(c.op = "serveFolder" /\ c.windowId = windowId)

NextSerial ==
  \/ /\ made < MaxSerialCalls
     /\ \E root \in Roots, windowId \in Windows :
          Serialized(windowId) /\ serveFolder(root, windowId)
  \/ /\ made < MaxSerialCalls
     /\ \E windowId \in Windows : stopServer(windowId)
  \/ /\ made < MaxSerialCalls
     /\ stopAllServers
  \/ Completion

SpecSerial == Init /\ [][NextSerial]_vars

----------------------------------------------------------------------------
(* The request handler (lines 65-116) *)

\* requests in flight (awaiting fs.readFile) at one time
MaxRequests == 1
\* calls of the three operations made in one run in which requests are served
MaxRequestCalls == 2

\* req.url of the requests: a directory, a file, a file with an escaped
\* character, a malformed escape, a file with a query string
Urls ==
  { <<"/">>, <<"/", "a">>, <<"/", "%", "6", "1">>, <<"/", "%">>,
    <<"/", "a", "?", "v">> }

HexDigits == {"1", "6"}

\* The character that the escape %xy stands for
unescaped(x, y) ==
  IF <<x, y>> = <<"6", "1">> THEN "a"
  ELSE IF <<x, y>> = <<"6", "6">> THEN "f"
  ELSE "^"

URIError == "URIError"
\* What stands for decodeURIComponent throwing URIError
Malformed == <<URIError>>

ENOENT == "ENOENT"
EACCES == "EACCES"
\* err of the fs.readFile callback
ReadErrors == {Undefined, ENOENT, EACCES}
\* data of the fs.readFile callback
FileData == "data"

\* url.parse(req.url): the pathname is what precedes the query string
RECURSIVE pathnameOf(_)
pathnameOf(reqUrl) ==
  IF reqUrl = <<>> \/ Head(reqUrl) = "?" THEN <<>>
  ELSE <<Head(reqUrl)>> \o pathnameOf(Tail(reqUrl))

parse(reqUrl) == [pathname |-> pathnameOf(reqUrl)]

\* decodeURIComponent(pathname): every %xy is replaced by its character; a %
\* that two hexadecimal digits do not follow makes it throw URIError.
RECURSIVE decodeURIComponent(_)
decodeURIComponent(pathname) ==
  IF pathname = <<>> THEN <<>>
  ELSE IF Head(pathname) = "%"
  THEN IF Len(pathname) >= 3 /\ pathname[2] \in HexDigits /\ pathname[3] \in HexDigits
       THEN LET rest == decodeURIComponent(SubSeq(pathname, 4, Len(pathname)))
            IN IF rest = Malformed THEN Malformed
               ELSE <<unescaped(pathname[2], pathname[3])>> \o rest
       ELSE Malformed
  ELSE LET rest == decodeURIComponent(Tail(pathname))
       IN IF rest = Malformed THEN Malformed ELSE <<Head(pathname)>> \o rest

\* pathname.endsWith('/')
endsWith(pathname, char) == pathname # <<>> /\ pathname[Len(pathname)] = char

\* path.join(root, pathname)
join(root, pathname) == <<root>> \o pathname

\* path.extname(filePath)
extname(filePath) ==
  IF filePath[Len(filePath)] = "index.html" THEN ".html" ELSE ""

\* contentTypes[ext] || 'application/octet-stream'
contentType(ext) ==
  IF ext = ".html" THEN "text/html" ELSE "application/octet-stream"

\* lines 66-72: the no-cache headers
setNoCacheHeaders(res) ==
  setHeader(
    setHeader(
      setHeader(res, "Surrogate-Control", "no-store"),
      "Cache-Control", "no-store, no-cache, must-revalidate, proxy-revalidate"),
    "Expires", "0")

\* lines 65-85: the handler of httpServer up to the call of fs.readFile.  An
\* exception of decodeURIComponent leaves the handler at line 76: nothing
\* catches it, no callback is registered and the response is never ended.
requestHandler(httpServer, reqUrl) ==
  /\ LET res == setNoCacheHeaders(NewResponse)
         decoded == decodeURIComponent(parse(reqUrl).pathname)
         pathname == IF endsWith(decoded, "/") THEN decoded \o <<"index.html">>
                     ELSE decoded
         e == [Event("request", "requestHandler", httpServer.windowId, httpServer.root)
                 EXCEPT !.res = res]
     IN IF decoded = Malformed
        THEN /\ requests' = requests
             /\ last' = [e EXCEPT !.err = URIError, !.ended = TRUE]
        ELSE /\ requests' = requests \cup
                  {[port |-> httpServer.port, root |-> httpServer.root,
                    windowId |-> httpServer.windowId,
                    filePath |-> join(httpServer.root, pathname), res |-> res]}
             /\ last' = e
  /\ UNCHANGED <<serversByWindow, unreferenced, calls, made>>

\* lines 85-115: the callback of fs.readFile for request r
readFileCallback(r, err, data) ==
  /\ LET res ==
           IF err # Undefined
           THEN end(writeHead(r.res, 404, {}), "Not Found")
           ELSE end(writeHead(r.res, 200,
                              {<<"Content-Type", contentType(extname(r.filePath))>>}),
                    data)
     IN last' = [Event("request", "readFileCallback", r.windowId, r.root)
                   EXCEPT !.err = err, !.ended = TRUE, !.res = res]
  /\ requests' = requests \ {r}
  /\ UNCHANGED <<serversByWindow, unreferenced, calls, made>>

\* The three operations called at any time, and clients that send requests
\* to the servers that listen.
NextRequests ==
  \/ /\ made < MaxRequestCalls
     /\ \E root \in Roots, windowId \in Windows : serveFolder(root, windowId)
  \/ /\ made < MaxRequestCalls
     /\ \E windowId \in Windows : stopServer(windowId)
  \/ /\ made < MaxRequestCalls
     /\ stopAllServers
  \/ Completion
  \/ /\ Cardinality(requests) < MaxRequests
     /\ \E httpServer \in Listening, reqUrl \in Urls : requestHandler(httpServer, reqUrl)
  \/ \E r \in requests, err \in ReadErrors : readFileCallback(r, err, FileData)

SpecRequests == Init /\ [][NextRequests]_vars

----------------------------------------------------------------------------
(* close and closeAllConnections that throw (lines 23-27 and 158-170) *)

CloseThrown == "CloseThrown"
CloseAllConnectionsThrown == "CloseAllConnectionsThrown"
\* What the calls made on the server of one entry do: none throws,
\* closeAllConnections throws, or close throws.
Faults == {Undefined, CloseAllConnectionsThrown, CloseThrown}

\* The injective sequences over the keys: the orders in which forEach can
\* visit the entries (insertion order, which the registry model does not keep)
Orders(keys) ==
  {order \in [1..Cardinality(keys) -> keys] :
     \A i, j \in 1..Cardinality(keys) : order[i] = order[j] => i = j}

\* A close of the existing server that is not guarded
uncaughtClosingExisting(e) == e

\* lines 23-27: try { close() } catch (e) { console.warn(...) }: what leaves
\* the statement when close throws e
catchClosingExisting(e) == Undefined

\* A shutdown loop whose body is not guarded
uncaughtShutdown(e) == e

\* lines 158-170: try { ... } catch (e) { }: what leaves the statement when
\* closeAllConnections or close throws e
catchShutdown(e) == Undefined

\* lines 13-30 when httpServer.close() of line 24 throws: the exception is
\* caught and the port is asked for.  Were it not caught it would leave
\* serveFolder, with no port asked for and onDone not invoked.
serveFolderCloseThrows(root, windowId) ==
  /\ made' = made + 1
  /\ ~hasServerForRoot(windowId, root)
  /\ has(windowId)
  /\ LET thrown == catchClosingExisting(CloseThrown)
         c == [Call("serveFolder", windowId, root, "getAvailablePort")
                 EXCEPT !.replaces = TRUE, !.closeErr = CloseThrown]
     IN IF thrown # Undefined
        THEN /\ last' = [EventOf(c, "closeThrew") EXCEPT
                           !.raised = 1, !.err = thrown, !.ended = TRUE]
             /\ UNCHANGED calls
        ELSE /\ last' = [EventOf(c, "closeThrew") EXCEPT !.raised = 1]
             /\ calls' = start(c)
  /\ UNCHANGED <<serversByWindow, unreferenced, requests>>

\* lines 157-171 for one entry: the calls made on its server, whether one of
\* them threw, and the exception that leaves the try statement
tryClose(record, fault) ==
  IF ~record.httpServer.listening
  THEN [record |-> record, raised |-> 0, thrown |-> Undefined]
  ELSE IF fault = Undefined
  THEN [record |-> [record EXCEPT !.httpServer.listening = FALSE],
        raised |-> 0, thrown |-> Undefined]
  ELSE [record |-> record, raised |-> 1, thrown |-> catchShutdown(fault)]

\* serversByWindow.forEach(...) visiting the entries in `order`: an exception
\* that leaves the callback ends the loop.
RECURSIVE forEach(_, _, _)
forEach(map, order, faults) ==
  IF order = <<>> THEN [map |-> map, raised |-> 0, thrown |-> Undefined]
  ELSE LET windowId == Head(order)
           r == tryClose(map[windowId], faults[windowId])
           visited == [map EXCEPT ![windowId] = r.record]
       IN IF r.thrown # Undefined
          THEN [map |-> visited, raised |-> r.raised, thrown |-> r.thrown]
          ELSE [forEach(visited, Tail(order), faults) EXCEPT !.raised = @ + r.raised]

\* stopAllServers when closeAllConnections or close may throw.  An exception
\* that left forEach would leave stopAllServers before line 173.
stopAllServersThrowing ==
  /\ made' = made + 1
  /\ \E order \in Orders(DOMAIN serversByWindow),
        faults \in [DOMAIN serversByWindow -> Faults] :
       LET r == forEach(serversByWindow, order, faults)
           e == [Event("stopAllServers", "returned", Undefined, Undefined) EXCEPT
                   !.ended = TRUE, !.raised = r.raised,
                   !.closed = Cardinality({w \in DOMAIN serversByWindow :
                                             /\ get(w).httpServer.listening
                                             /\ ~r.map[w].httpServer.listening})]
       IN IF r.thrown # Undefined
          THEN /\ serversByWindow' = r.map
               /\ UNCHANGED unreferenced
               /\ last' = [e EXCEPT !.step = "threw", !.err = r.thrown]
          ELSE /\ serversByWindow' = clear(r.map)
               /\ unreferenced' = unreferenced \cup released(r.map, serversByWindow')
               /\ last' = e
  /\ UNCHANGED <<calls, requests>>

\* Any caller, and library calls that may throw where the code guards them
NextThrowing ==
  \/ /\ made < MaxCalls
     /\ \E root \in Roots, windowId \in Windows : serveFolder(root, windowId)
  \/ /\ made < MaxCalls
     /\ \E root \in Roots, windowId \in Windows : serveFolderCloseThrows(root, windowId)
  \/ /\ made < MaxCalls
     /\ \E windowId \in Windows : stopServer(windowId)
  \/ /\ made < MaxCalls
     /\ stopAllServersThrowing
  \/ Completion

SpecThrowing == Init /\ [][NextThrowing]_vars

----------------------------------------------------------------------------
(* Properties *)

\* The registry without the state of the servers: its keys, and for each key
\* the params and the server (port, root, window) of its record.
RegistryRecords(map) ==
  [w \in DOMAIN map |->
     [serverParams |-> map[w].serverParams,
      port |-> map[w].httpServer.port, root |-> map[w].httpServer.root,
      windowId |-> map[w].httpServer.windowId]]

\* C1: in every reachable state, every windowId has at most one live
\* listener (bound, not closed) created by serveFolder for it.
C1_AtMostOneLiveListener ==
  \A w \in Windows : Cardinality(ListenersOf(serversByWindow, unreferenced, w)) <= 1

C3_ChangedRootReplacesListener ==
  [][ /\ (last'.op = "serveFolder" /\ last'.step = "called" /\ last'.replaces)
         => ~serversByWindow'[last'.windowId].httpServer.listening
      /\ ( /\ last'.op = "serveFolder" /\ last'.step = "listenCallback"
           /\ last'.err = Undefined /\ last'.replaces )
         => /\ Cardinality(ListenersOf(serversByWindow', unreferenced', last'.windowId)) = 1
            /\ last'.windowId \in DOMAIN serversByWindow'
            /\ serversByWindow'[last'.windowId].serverParams = last'.params
            /\ serversByWindow'[last'.windowId].serverParams.root = last'.root
            /\ serversByWindow'[last'.windowId].httpServer.listening
            /\ serversByWindow'[last'.windowId].httpServer.root = last'.root
    ]_vars

\* C4: in every reachable state, the listener of every record of the registry
\* is bound, and serves the root of the record's params.
C4_RecordsReferToBoundListener ==
  \A w \in DOMAIN serversByWindow :
    /\ get(w).httpServer.listening
    /\ get(w).httpServer.root = get(w).serverParams.root

\* C5: stopServer on a window that has a record closes the listener of the
\* record at once (its port is no longer held), and when the close completes,
\* with or without an error, the registry has no entry for the window and
\* onDone is invoked once, with the close error if there was one.
C5_StopServerRemovesRecord ==
  [][ /\ ( /\ last'.op = "stopServer" /\ last'.step = "called" )
         => /\ last'.windowId \in DOMAIN serversByWindow
            /\ ~serversByWindow'[last'.windowId].httpServer.listening
            /\ serversByWindow[last'.windowId].httpServer.listening
                 => serversByWindow[last'.windowId].httpServer.port
                      \notin {s.port : s \in {t \in referenced(serversByWindow') : t.listening}
                                              \cup unreferenced'}
      /\ \A c \in InFlight :
           (c.pc = "close" /\ calls' = finish(c))
             => /\ c.windowId \notin DOMAIN serversByWindow'
                /\ last'.op = "stopServer"
                /\ last'.windowId = c.windowId
                /\ last'.onDoneCount = 1
                /\ last'.err = c.closeErr
    ]_vars

C5_Witness ==
  /\ last.op = "stopServer" /\ last.step = "closeCallback"
  /\ last.err = ERR_SERVER_NOT_RUNNING
  /\ ~has(last.windowId)

\* C6: a stopServer call on a window for which no listener is running
\* completes by invoking onDone once, without an error, and neither the call
\* nor its completion changes the registry.
C6_StopServerIdleWindow ==
  [][ (last'.op = "stopServer" /\ last'.noListener)
        => /\ serversByWindow' = serversByWindow
           /\ last'.ended => (last'.onDoneCount = 1 /\ last'.err = Undefined)
    ]_vars

C8_PortExhaustionKeepsRegistry ==
  [][ /\ (last'.op = "serveFolder" /\ last'.step = "called")
         => RegistryRecords(serversByWindow') = RegistryRecords(serversByWindow)
      /\ \A c \in InFlight :
           (c.pc = "getAvailablePort" /\ calls' = finish(c))
             => /\ last'.onDoneCount = 1
                /\ last'.err = NoPortAvailable
                /\ last'.params = NoParams
                /\ last'.windowId = c.windowId
                /\ UNCHANGED <<serversByWindow, unreferenced>>
    ]_vars

C8_Witness ==
  /\ last.op = "serveFolder" /\ last.step = "portRejected"
  /\ last.err = NoPortAvailable
  /\ has(last.windowId)

\* C9: when the listener fails to bind to the allocated port, serveFolder
\* invokes onDone with the bind error, and no entry of the registry is
\* inserted or replaced.
C9_BindFailureReported ==
  [][ \A c \in InFlight :
        (c.pc = "listen" /\ calls' = finish(c) /\ last'.err # Undefined)
          => /\ last'.onDoneCount = 1
             /\ last'.params = NoParams
             /\ UNCHANGED serversByWindow
    ]_vars

\* C10: every serveFolder call that is over (none of its callbacks is left to
\* run) has invoked onDone exactly once, and a call that did not take the
\* same-root fast path did so only in the callback of the port finder or of
\* the bind.
C10_OnDoneExactlyOnce ==
  (last.op = "serveFolder" /\ last.ended)
    => /\ last.onDoneCount = 1
       /\ last.step \in {"fastPath", "portRejected", "listenCallback"}

\* C11: when serveFolder calls of two distinct windows, with different roots,
\* are under way at the same time, the ports they were given differ, and the
\* call whose bind step ends first ends with onDone invoked once, without
\* error, with params of its own port and root, and with the record of its
\* window holding a listening server of its root on that port.
C11_ConcurrentWindowsDistinctPorts ==
  [][ \A c, d \in InFlight :
        ( /\ c.op = "serveFolder" /\ d.op = "serveFolder"
          /\ c.windowId # d.windowId /\ c.root # d.root
          /\ c.pc = "listen" /\ d.pc = "listen" )
          => /\ c.port # d.port
             /\ calls' = finish(c)
                  => /\ last'.onDoneCount = 1
                     /\ last'.err = Undefined
                     /\ last'.params = [port |-> c.port, root |-> c.root]
                     /\ c.windowId \in DOMAIN serversByWindow'
                     /\ serversByWindow'[c.windowId].httpServer =
                          [listening |-> TRUE, port |-> c.port,
                           root |-> c.root, windowId |-> c.windowId]
    ]_vars

\* C12: every response that the request handler has ended, with status 200 or
\* with status 404 and whatever the request's URL, carries the three no-cache
\* headers.
C12_ResponsesCarryNoCacheHeaders ==
  (last.op = "request" /\ last.res.ended)
    => /\ NoCacheHeaders \subseteq last.res.headers
       /\ last.res.statusCode \in {200, 404}

C12_Witness ==
  /\ last.op = "request" /\ last.step = "readFileCallback"
  /\ last.res.ended /\ last.res.statusCode = 200
  /\ NoCacheHeaders \subseteq last.res.headers
  /\ <<"Content-Type", "text/html">> \in last.res.headers

\* C13: whatever the URL of a request, once no step of its handler is left to
\* run the response is ended, with status 200 or 404, and with status 404 and
\* body "Not Found" when reading the file failed; and no step of the handler
\* changes the registry or stops a server from listening.
C13_RequestFailuresAre404 ==
  [][ last'.op = "request"
        => /\ UNCHANGED <<serversByWindow, unreferenced>>
           /\ last'.ended
                => /\ last'.res.ended
                   /\ last'.res.statusCode \in {200, 404}
                   /\ last'.err # Undefined
                        => (last'.res.statusCode = 404 /\ last'.res.body = "Not Found")
    ]_vars

\* C14: in the state that a completed stopServer call (its onDone invoked) or a
\* returned stopAllServers call leaves, the listener of every record of the
\* registry is listening; and a stopServer call for a window without a
\* record invokes onDone once, without an error.
C14_StopLeavesNoClosedListener ==
  /\ ((last.op = "stopServer" /\ last.ended) \/ last.op = "stopAllServers")
       => \A w \in DOMAIN serversByWindow : get(w).httpServer.listening
  /\ (last.op = "stopServer" /\ last.step = "noServer")
       => (last.onDoneCount = 1 /\ last.err = Undefined)

\* C15: stopAllServers returns normally whatever the registry holds and
\* whichever of its closeAllConnections and close calls throw: no exception
\* leaves it, every entry is visited (each listening server whose calls do
\* not throw is closed, however many others throw) and the registry is
\* cleared.
C15_StopAllServersNeverThrows ==
  [][ last'.op = "stopAllServers"
        => /\ last'.step = "returned"
           /\ last'.err = Undefined
           /\ serversByWindow' = EmptyMap
           /\ last'.closed + last'.raised =
                Cardinality({w \in DOMAIN serversByWindow : get(w).httpServer.listening})
    ]_vars

C15_Witness ==
  /\ last.op = "stopAllServers" /\ last.step = "returned"
  /\ last.raised = 1 /\ last.closed = 1
  /\ serversByWindow = EmptyMap

\* C16: a serveFolder call on a window that has a record of another root, and
\* for which closing the old listener throws, raises no error and asks for a
\* port; and whenever onDone of such a call is invoked it carries the outcome
\* of the new server: the port finder's error, or the params of the new
\* listener, which the record of the window then holds.
C16_CloseFailureNotPropagated ==
  [][ /\ (last'.op = "serveFolder" /\ last'.step = "closeThrew")
        => /\ last'.err = Undefined /\ ~last'.ended
           /\ \E c \in BagToSet(calls') :
                /\ calls' = start(c)
                /\ c.op = "serveFolder" /\ c.pc = "getAvailablePort"
                /\ c.windowId = last'.windowId /\ c.root = last'.root
      /\ ( /\ last'.op = "serveFolder" /\ last'.closeErr # Undefined
           /\ last'.onDoneCount > 0 )
        => /\ last'.onDoneCount = 1
           /\ last'.err \in {Undefined, NoPortAvailable}
           /\ last'.err = Undefined
                => /\ last'.params.root = last'.root
                   /\ last'.windowId \in DOMAIN serversByWindow'
                   /\ serversByWindow'[last'.windowId].serverParams = last'.params
                   /\ serversByWindow'[last'.windowId].httpServer.listening
    ]_vars

C16_Witness ==
  /\ last.op = "serveFolder" /\ last.step = "listenCallback"
  /\ last.replaces /\ last.closeErr = CloseThrown
  /\ last.err = Undefined
  /\ has(last.windowId) /\ get(last.windowId).serverParams = last.params

\* C17: when the close callback of a stopServer call runs while the record of
\* its window is one registered after the call (its listener is listening:
\* the one the call closed is not), that record is still in the registry
\* after the callback.
C17_CloseCompletionKeepsNewerRecord ==
  [][ \A c \in InFlight :
        ( /\ c.op = "stopServer" /\ c.pc = "close" /\ calls' = finish(c)
          /\ has(c.windowId) /\ get(c.windowId).httpServer.listening )
          => /\ c.windowId \in DOMAIN serversByWindow'
             /\ serversByWindow'[c.windowId] = get(c.windowId)
    ]_vars

\* C18: in every reachable state, every server that is listening is the
\* server of the registry record of the window it was created for.
C18_ListenersAreReferenced ==
  \A s \in Listening : has(s.windowId) /\ get(s.windowId).httpServer = s

\* C19: in every reachable state, the records of two distinct windows have
\* distinct params.port.
C19_RecordsHaveDistinctPorts ==
  \A w1, w2 \in DOMAIN serversByWindow :
    w1 # w2 => get(w1).serverParams.port # get(w2).serverParams.port

\* C20: a callback of a serveFolder call (port found or rejected, bind
\* completed or failed) that runs right after stopAllServers has returned
\* leaves the registry empty and binds no listener.
C20_RegistryStaysEmptyAfterStopAll ==
  [][ ( /\ last.op = "stopAllServers"
        /\ last'.op = "serveFolder"
        /\ last'.step \in {"portResolved", "portRejected", "listenCallback", "listenError"} )
        => /\ serversByWindow' = EmptyMap
           /\ unreferenced' = unreferenced
    ]_vars

====
